---- MODULE Spec2Model ----
(***************************************************************************)
(* Model of dup-scanner (src/dup-scanner/core.py): DirectoryScanner walks  *)
(* a directory, buckets files by the md5 of their first 2**20 bytes, then  *)
(* re-hashes the members of every bucket with more than one record in full *)
(* and reports the full-digest buckets with more than one record.          *)
(*                                                                         *)
(* A file's content is the sequence of buffers f.read(2 ** 20) returns on  *)
(* it: every buffer but the last holds READ_SIZE bytes.  A buffer is a     *)
(* record [len, sym], sym naming its bytes.  md5 is taken collision-free:  *)
(* a digest is the sequence of buffers that was fed to the accumulator.    *)
(* Paths are 1 .. MaxFiles, ordered as their path strings are.             *)
(***************************************************************************)
EXTENDS Integers, Sequences, FiniteSets, TLC

MaxFiles == 3
MaxVanish == 1
MaxRuns == 2

READ_SIZE == 2 ^ 20
IGNORE_MIN_SIZE == 2 ^ 17

Small == << [len |-> IGNORE_MIN_SIZE - 1, sym |-> "h"] >>
Edge == << [len |-> IGNORE_MIN_SIZE, sym |-> "h"] >>
BigA == << [len |-> READ_SIZE, sym |-> "h"], [len |-> READ_SIZE, sym |-> "h"] >>
BigB == << [len |-> READ_SIZE, sym |-> "h"], [len |-> READ_SIZE, sym |-> "w"] >>
Contents == {Small, Edge, BigA, BigB}

VARIABLES
    dir_ok,        \* isdir(dir_path) at construction
    ignore,        \* the --ignore flag
    content,       \* the tree: path -> content
    listing,       \* the files os.walk yields, in its order
    present,       \* the paths that are regular files now
    vanished,      \* number of files another process removed
    pc,            \* position of main
    error,         \* the exception that ended main, or "none"
    raised_in,     \* the call the exception came from, or "none"
    constructed,   \* a DirectoryScanner object exists
    min_size,      \* DirectoryScanner.min_size
    scanned_info,  \* DirectoryScanner.scanned_info, an insertion-ordered dict
    ti,            \* _scan_path: index into listing
    tstep,         \* _scan_path: the next call on listing[ti]
    info_size,     \* FileInfo.size of the record under construction
    deep,          \* get_dups: the dict deep
    gi,            \* get_dups: index of the next candidate
    result,        \* the list get_dups returned
    returned,      \* get_dups has returned
    printed,       \* the lines main printed
    stats,         \* paths passed to isfile or getsize
    quick_reads,   \* paths opened by calc_md5(path)
    full_reads,    \* calc_md5(path, True) calls in order: [path, ok]
    runs,          \* traverse() calls started on the object
    first_result   \* the list the first get_dups returned

vars == << dir_ok, ignore, content, listing, present, vanished, pc, error,
           raised_in, constructed, min_size, scanned_info, ti, tstep,
           info_size, deep, gi, result, returned, printed, stats,
           quick_reads, full_reads, runs, first_result >>

env == << dir_ok, ignore, content, listing >>

----------------------------------------------------------------------------
(* helpers *)

RECURSIVE SumLen(_)
SumLen(c) == IF c = << >> THEN 0 ELSE Head(c).len + SumLen(Tail(c))

\* os.path.getsize on an existing file
getsize(p) == SumLen(content[p])

\* the orders os.walk may yield n files in: the rotations of the ascending
\* and of the descending order of the paths (every order of up to 3 files)
Orders(n) ==
    IF n = 0 THEN { << >> }
    ELSE { [i \in 1 .. n |-> ((i - 1 + r) % n) + 1] : r \in 0 .. n - 1 }
         \cup { [i \in 1 .. n |-> n - ((i - 1 + r) % n)] : r \in 0 .. n - 1 }

----------------------------------------------------------------------------
(* calc_md5 *)

\* hashlib.md5: the accumulator after update(buf) on each buffer of bufs
md5(bufs) == bufs

\* a calc_md5 that hashes the first buffer whatever full says
calc_md5_first_buffer(c, full) ==
    md5(IF c = << >> THEN << >> ELSE << Head(c) >>)

\* calc_md5(file_path, full) on an existing file of content c
calc_md5(c, full) ==
    IF ~full
    THEN md5(IF c = << >> THEN << >> ELSE << Head(c) >>)
    ELSE md5(c)

----------------------------------------------------------------------------
(* insertion-ordered dict: a sequence of [key, recs] *)

HasKey(d, k) == \E i \in 1 .. Len(d) : d[i].key = k

KeyIndex(d, k) == CHOOSE i \in 1 .. Len(d) : d[i].key = k

\* a traverse that starts a new list of records on every insertion
BucketReplace(d, k, info) ==
    IF HasKey(d, k)
    THEN [d EXCEPT ![KeyIndex(d, k)].recs = << info >>]
    ELSE Append(d, [key |-> k, recs |-> << info >>])

\* lines 60-64: scanned_info[info.md5].append(info) or a new bucket
BucketInsert(d, k, info) ==
    IF HasKey(d, k)
    THEN [d EXCEPT ![KeyIndex(d, k)].recs = Append(@, info)]
    ELSE Append(d, [key |-> k, recs |-> << info >>])

\* a get_dups that puts the record at the front of its bucket
DeepPrepend(d, k, dup) ==
    IF HasKey(d, k)
    THEN [d EXCEPT ![KeyIndex(d, k)].recs = << dup >> \o @]
    ELSE Append(d, [key |-> k, recs |-> << dup >>])

\* lines 84-87: deep[md5_].append(dup) or a new bucket
DeepInsert(d, k, dup) ==
    IF HasKey(d, k)
    THEN [d EXCEPT ![KeyIndex(d, k)].recs = Append(@, dup)]
    ELSE Append(d, [key |-> k, recs |-> << dup >>])

\* a get_dups that re-hashes every coarse bucket
IsCandidateAny(s) == Len(s) > 0

\* line 80: the test len(s) > 1 on a bucket of scanned_info
IsCandidate(s) == Len(s) > 1

\* line 88: the test len(v) > 1 on a bucket of deep
IsGroup(v) == Len(v) > 1

\* a size test that also skips a file of exactly min_size bytes
TooSmallOrEqual(size, min) == size <= min

\* line 72: the test getsize(name) < self.min_size
TooSmall(size, min) == size < min

RECURSIVE Flatten(_)
Flatten(ss) == IF ss = << >> THEN << >> ELSE Head(ss) \o Flatten(Tail(ss))

\* d.values()
Values(d) == [i \in 1 .. Len(d) |-> d[i].recs]

\* lines 80-81: the records the two loops of get_dups visit, in order
Candidates(d) == Flatten(SelectSeq(Values(d), IsCandidate))

\* line 88: [v for v in deep.values() if len(v) > 1]
Reported(d) == SelectSeq(Values(d), IsGroup)

\* line 109: result.sort(key=lambda x: x[0].path), a stable sort
RECURSIVE SortByFirstPath(_)
SortByFirstPath(gs) ==
    IF gs = << >> THEN << >>
    ELSE LET rest == SortByFirstPath(Tail(gs))
             g == Head(gs)
             before == SelectSeq(rest, LAMBDA x : x[1].path < g[1].path)
             after == SelectSeq(rest, LAMBDA x : ~(x[1].path < g[1].path))
         IN before \o << g >> \o after

\* lines 110-113: the lines printed for the groups gs
RECURSIVE Lines(_)
Lines(gs) ==
    IF gs = << >> THEN << >>
    ELSE LET g == Head(gs)
         IN << [kind |-> "md5", md5 |-> g[1].md5, path |-> 0] >>
            \o [i \in 1 .. Len(g) |-> [kind |-> "---", md5 |-> << >>, path |-> g[i].path]]
            \o Lines(Tail(gs))

----------------------------------------------------------------------------
(* initial states: a tree of at most MaxFiles regular files *)

Init ==
    /\ dir_ok \in BOOLEAN
    /\ ignore \in BOOLEAN
    /\ \E n \in 0 .. MaxFiles :
          /\ ~dir_ok => n = 0
          /\ content \in [1 .. n -> Contents]
          /\ listing \in Orders(n)
          /\ present = 1 .. n
    /\ vanished = 0
    /\ pc = "init"
    /\ error = "none"
    /\ raised_in = "none"
    /\ constructed = FALSE
    /\ min_size = 0
    /\ scanned_info = << >>
    /\ ti = 1
    /\ tstep = "isfile"
    /\ info_size = 0
    /\ deep = << >>
    /\ gi = 1
    /\ result = << >>
    /\ returned = FALSE
    /\ printed = << >>
    /\ stats = {}
    /\ quick_reads = {}
    /\ full_reads = << >>
    /\ runs = 0
    /\ first_result = << >>

\* an uncaught exception leaves main
Raise(exc, where) ==
    /\ pc' = "failed"
    /\ error' = exc
    /\ raised_in' = where

----------------------------------------------------------------------------
(* DirectoryScanner.__init__, called from main line 106 *)

\* a constructor without the isdir test
ConstructUnchecked ==
    /\ pc = "init"
    /\ constructed' = TRUE
    /\ min_size' = IF ignore THEN IGNORE_MIN_SIZE ELSE 0
    /\ scanned_info' = << >>
    /\ pc' = "traverse"
    /\ runs' = 1
    /\ UNCHANGED << env, present, vanished, error, raised_in, ti, tstep,
                    info_size, deep, gi, result, returned, printed, stats,
                    quick_reads, full_reads, first_result >>

Construct ==
    /\ pc = "init"
    /\ IF ~dir_ok
       THEN /\ Raise("NotADirectoryError", "__init__")
            /\ UNCHANGED << constructed, min_size, scanned_info, runs >>
       ELSE /\ constructed' = TRUE
            /\ min_size' = IF ignore THEN IGNORE_MIN_SIZE ELSE 0
            /\ scanned_info' = << >>
            /\ pc' = "traverse"
            /\ runs' = 1
            /\ UNCHANGED << error, raised_in >>
    /\ UNCHANGED << env, present, vanished, ti, tstep, info_size, deep, gi,
                    result, returned, printed, stats, quick_reads, full_reads,
                    first_result >>

----------------------------------------------------------------------------
(* traverse and _scan_path, one file-system call per step *)

NextEntry ==
    /\ ti' = ti + 1
    /\ tstep' = "isfile"

InScan(step) ==
    /\ pc = "traverse"
    /\ ti <= Len(listing)
    /\ tstep = step

\* line 70: if not isfile(name): continue
ScanIsfile ==
    /\ InScan("isfile")
    /\ stats' = stats \cup {listing[ti]}
    /\ IF listing[ti] \notin present
       THEN NextEntry
       ELSE tstep' = "getsize" /\ ti' = ti
    /\ UNCHANGED << env, present, vanished, pc, error, raised_in, constructed,
                    min_size, scanned_info, info_size, deep, gi, result,
                    returned, printed, quick_reads, full_reads, runs,
                    first_result >>

\* line 72: if getsize(name) < self.min_size: continue
ScanGetsize ==
    /\ InScan("getsize")
    /\ stats' = stats \cup {listing[ti]}
    /\ IF listing[ti] \notin present
       THEN Raise("FileNotFoundError", "_scan_path") /\ UNCHANGED << ti, tstep >>
       ELSE /\ IF TooSmall(getsize(listing[ti]), min_size)
               THEN NextEntry
               ELSE tstep' = "FileInfo" /\ ti' = ti
            /\ UNCHANGED << pc, error, raised_in >>
    /\ UNCHANGED << env, present, vanished, constructed, min_size,
                    scanned_info, info_size, deep, gi, result, returned,
                    printed, quick_reads, full_reads, runs, first_result >>

\* line 19: self.size = getsize(file_path)
FileInfoGetsize ==
    /\ InScan("FileInfo")
    /\ stats' = stats \cup {listing[ti]}
    /\ IF listing[ti] \notin present
       THEN Raise("FileNotFoundError", "FileInfo") /\ UNCHANGED << tstep, info_size >>
       ELSE /\ info_size' = getsize(listing[ti])
            /\ tstep' = "calc_md5"
            /\ UNCHANGED << pc, error, raised_in >>
    /\ UNCHANGED << env, present, vanished, constructed, min_size,
                    scanned_info, ti, deep, gi, result, returned, printed,
                    quick_reads, full_reads, runs, first_result >>

\* line 20: self.md5 = calc_md5(file_path); lines 60-64: the record is yielded
\* and traverse puts it in its bucket
FileInfoMd5 ==
    /\ InScan("calc_md5")
    /\ IF listing[ti] \notin present
       THEN /\ Raise("FileNotFoundError", "FileInfo")
            /\ UNCHANGED << ti, tstep, scanned_info, quick_reads >>
       ELSE /\ quick_reads' = quick_reads \cup {listing[ti]}
            /\ LET info == [path |-> listing[ti],
                            size |-> info_size,
                            md5 |-> calc_md5(content[listing[ti]], FALSE)]
               IN scanned_info' = BucketInsert(scanned_info, info.md5, info)
            /\ NextEntry
            /\ UNCHANGED << pc, error, raised_in >>
    /\ UNCHANGED << env, present, vanished, constructed, min_size, info_size,
                    deep, gi, result, returned, printed, stats, full_reads,
                    runs, first_result >>

\* os.walk is exhausted: traverse returns and main line 108 enters get_dups
TraverseReturn ==
    /\ pc = "traverse"
    /\ ti > Len(listing)
    /\ pc' = "get_dups"
    /\ deep' = << >>
    /\ gi' = 1
    /\ UNCHANGED << env, present, vanished, error, raised_in, constructed,
                    min_size, scanned_info, ti, tstep, info_size, result,
                    returned, printed, stats, quick_reads, full_reads, runs,
                    first_result >>

----------------------------------------------------------------------------
(* get_dups, one candidate per step *)

\* a get_dups that skips a candidate it cannot read and goes on
GetDupsStepSkipping ==
    /\ pc = "get_dups"
    /\ gi <= Len(Candidates(scanned_info))
    /\ LET dup == Candidates(scanned_info)[gi]
       IN IF dup.path \notin present
          THEN /\ full_reads' = Append(full_reads, [path |-> dup.path, ok |-> FALSE])
               /\ UNCHANGED deep
          ELSE /\ full_reads' = Append(full_reads, [path |-> dup.path, ok |-> TRUE])
               /\ deep' = DeepInsert(deep, calc_md5(content[dup.path], TRUE), dup)
    /\ gi' = gi + 1
    /\ UNCHANGED << env, present, vanished, pc, error, raised_in, constructed,
                    min_size, scanned_info, ti, tstep, info_size, result,
                    returned, printed, stats, quick_reads, runs, first_result >>

\* lines 81-87: md5_ = calc_md5(dup.path, True) and the insertion into deep
GetDupsStep ==
    /\ pc = "get_dups"
    /\ gi <= Len(Candidates(scanned_info))
    /\ LET dup == Candidates(scanned_info)[gi]
       IN IF dup.path \notin present
          THEN /\ full_reads' = Append(full_reads, [path |-> dup.path, ok |-> FALSE])
               /\ Raise("FileNotFoundError", "get_dups")
               /\ UNCHANGED << deep, gi >>
          ELSE /\ full_reads' = Append(full_reads, [path |-> dup.path, ok |-> TRUE])
               /\ deep' = DeepInsert(deep, calc_md5(content[dup.path], TRUE), dup)
               /\ gi' = gi + 1
               /\ UNCHANGED << pc, error, raised_in >>
    /\ UNCHANGED << env, present, vanished, constructed, min_size,
                    scanned_info, ti, tstep, info_size, result, returned,
                    printed, stats, quick_reads, runs, first_result >>

\* line 88: return [v for v in deep.values() if len(v) > 1]
GetDupsReturn ==
    /\ pc = "get_dups"
    /\ gi > Len(Candidates(scanned_info))
    /\ result' = Reported(deep)
    /\ returned' = TRUE
    /\ pc' = "report"
    /\ UNCHANGED << env, present, vanished, error, raised_in, constructed,
                    min_size, scanned_info, ti, tstep, info_size, deep, gi,
                    printed, stats, quick_reads, full_reads, runs,
                    first_result >>

\* main lines 109-113: sort the groups and print them
Report ==
    /\ pc = "report"
    /\ result' = SortByFirstPath(result)
    /\ printed' = printed \o Lines(SortByFirstPath(result))
    /\ pc' = "done"
    /\ UNCHANGED << env, present, vanished, error, raised_in, constructed,
                    min_size, scanned_info, ti, tstep, info_size, deep, gi,
                    returned, stats, quick_reads, full_reads, runs,
                    first_result >>

----------------------------------------------------------------------------
(* the environment *)

\* another process removes a listed file while the scan runs
Vanish ==
    /\ pc \in {"traverse", "get_dups"}
    /\ vanished < MaxVanish
    /\ \E p \in present :
          present' = present \ {p}
    /\ vanished' = vanished + 1
    /\ UNCHANGED << env, pc, error, raised_in, constructed, min_size,
                    scanned_info, ti, tstep, info_size, deep, gi, result,
                    returned, printed, stats, quick_reads, full_reads, runs,
                    first_result >>

\* a caller runs traverse() and get_dups() again on the same object
Rescan ==
    /\ pc = "done"
    /\ runs < MaxRuns
    /\ runs' = runs + 1
    /\ first_result' = IF runs = 1 THEN result ELSE first_result
    /\ pc' = "traverse"
    /\ ti' = 1
    /\ tstep' = "isfile"
    /\ returned' = FALSE
    /\ UNCHANGED << env, present, vanished, error, raised_in, constructed,
                    min_size, scanned_info, info_size, deep, gi, result,
                    printed, stats, quick_reads, full_reads >>

Scan ==
    \/ Construct
    \/ ScanIsfile
    \/ ScanGetsize
    \/ FileInfoGetsize
    \/ FileInfoMd5
    \/ TraverseReturn
    \/ GetDupsStep
    \/ GetDupsReturn
    \/ Report

\* one run of main, with files vanishing under it
Next == Scan \/ Vanish

Spec == Init /\ [][Next]_vars

\* repeated scans with one DirectoryScanner on a tree nothing modifies
NextRescan == Scan \/ Rescan

SpecRescan == Init /\ [][NextRescan]_vars

----------------------------------------------------------------------------
(* vocabulary of the properties *)

Files == DOMAIN content

GroupPaths(g) == { g[i].path : i \in 1 .. Len(g) }

\* the paths recorded in the coarse buckets
Scanned == UNION { GroupPaths(scanned_info[i].recs) : i \in 1 .. Len(scanned_info) }

\* the paths calc_md5(path, True) was called on
FullyRead == { full_reads[i].path : i \in 1 .. Len(full_reads) }

\* position of a path in the order the traversal visits the entries
Visit(p) == CHOOSE k \in 1 .. Len(listing) : listing[k] = p

TraverseOver == pc \in {"get_dups", "report", "done"}

\* two distinct files holding the same bytes
Duplicates(p, q) == p # q /\ content[p] = content[q]

\* two files larger than the quick window, equal on it and different after it
PrefixTwins(p, q) ==
    /\ Len(content[p]) > 1
    /\ Len(content[q]) > 1
    /\ Head(content[p]) = Head(content[q])
    /\ content[p] # content[q]

\* the membership of a list of groups: the set of the groups' path sets
Membership(gs) == { GroupPaths(gs[i]) : i \in 1 .. Len(gs) }

----------------------------------------------------------------------------
(* C1 *)

\* C1: every group get_dups returns has at least 2 members and all its
\* members hold the same bytes; files equal on the first 2**20 bytes and
\* different after them are never in one group.
Soundness ==
    returned =>
        \A k \in 1 .. Len(result) :
            /\ Len(result[k]) >= 2
            /\ \A i, j \in 1 .. Len(result[k]) :
                  /\ content[result[k][i].path] = content[result[k][j].path]
                  /\ ~PrefixTwins(result[k][i].path, result[k][j].path)

\* a group was returned while a prefix twin of its members was re-hashed too
SoundnessWitness ==
    /\ returned
    /\ \E k \in 1 .. Len(result) :
          \E q \in FullyRead : PrefixTwins(result[k][1].path, q)

----------------------------------------------------------------------------
(* C2 *)

\* C2: on a tree nothing removed a file from, two files with the same content
\* and size >= min_size share a coarse bucket once traverse is over and share
\* a group once get_dups has returned; a file with no content-identical
\* partner is in no returned group.
Completeness ==
    /\ (TraverseOver /\ vanished = 0) =>
          \A p, q \in Files :
             (Duplicates(p, q) /\ getsize(p) >= min_size) =>
                \E b \in 1 .. Len(scanned_info) :
                   {p, q} \subseteq GroupPaths(scanned_info[b].recs)
    /\ (returned /\ vanished = 0) =>
          \A p \in Files :
             /\ \A q \in Files :
                   (Duplicates(p, q) /\ getsize(p) >= min_size) =>
                      \E k \in 1 .. Len(result) : {p, q} \subseteq GroupPaths(result[k])
             /\ (~\E q \in Files : Duplicates(p, q)) =>
                   \A k \in 1 .. Len(result) : p \notin GroupPaths(result[k])

\* a duplicate pair was grouped while a scanned file without a partner was not
CompletenessWitness ==
    /\ returned
    /\ vanished = 0
    /\ \E p, q \in Files :
          /\ Duplicates(p, q)
          /\ \E k \in 1 .. Len(result) : {p, q} \subseteq GroupPaths(result[k])
    /\ \E p \in Scanned : ~\E q \in Files : Duplicates(p, q)

----------------------------------------------------------------------------
(* C3 *)

\* C3: calc_md5(path, True) is called only on records of a coarse bucket with
\* at least 2 records, so a file alone in its coarse bucket is never fully
\* read; and a bucket of deep with exactly 1 record is not in the returned
\* list.
SingletonElimination ==
    /\ \A p \in FullyRead :
          \E b \in 1 .. Len(scanned_info) :
             /\ p \in GroupPaths(scanned_info[b].recs)
             /\ Len(scanned_info[b].recs) >= 2
    /\ \A b \in 1 .. Len(scanned_info) :
          Len(scanned_info[b].recs) = 1 => scanned_info[b].recs[1].path \notin FullyRead
    /\ returned =>
          \A d \in 1 .. Len(deep) :
             Len(deep[d].recs) = 1 =>
                \A k \in 1 .. Len(result) : deep[d].recs[1].path \notin GroupPaths(result[k])

\* a file alone in its coarse bucket was left unread and a file alone in its
\* full-digest bucket was left out, in a run that did re-hash
SingletonEliminationWitness ==
    /\ returned
    /\ \E b \in 1 .. Len(scanned_info) : Len(scanned_info[b].recs) = 1
    /\ \E d \in 1 .. Len(deep) : Len(deep[d].recs) = 1
    /\ full_reads # << >>

----------------------------------------------------------------------------
(* C4 *)

\* C4: min_size is 131072 with the ignore flag and 0 without; every record in
\* scanned_info is of a file of size >= min_size; a file of size exactly
\* min_size is kept; a smaller file is never quick-hashed, never in a coarse
\* bucket and never in a returned group.
SizeFilter ==
    constructed =>
        /\ min_size = (IF ignore THEN 131072 ELSE 0)
        /\ \A b \in 1 .. Len(scanned_info) :
              \A i \in 1 .. Len(scanned_info[b].recs) :
                 /\ scanned_info[b].recs[i].size >= min_size
                 /\ scanned_info[b].recs[i].size = getsize(scanned_info[b].recs[i].path)
        /\ \A p \in Files :
              getsize(p) < min_size =>
                 /\ p \notin quick_reads
                 /\ p \notin Scanned
                 /\ \A k \in 1 .. Len(result) : p \notin GroupPaths(result[k])
        /\ TraverseOver =>
              \A p \in present : getsize(p) = min_size => p \in Scanned

\* with the flag set, a file one byte short was skipped and a file of exactly
\* min_size bytes was recorded
SizeFilterWitness ==
    /\ TraverseOver
    /\ ignore
    /\ \E p \in Files : getsize(p) = min_size - 1 /\ p \in stats /\ p \notin Scanned
    /\ \E p \in Files : getsize(p) = min_size /\ p \in Scanned

----------------------------------------------------------------------------
(* C5 *)

\* C5: with a root that is not a directory the constructor fails with
\* NotADirectoryError before any traversal, stat or read, and no
\* scanned_info is created.
InvalidRoot ==
    (~dir_ok /\ pc # "init") =>
        /\ pc = "failed"
        /\ error = "NotADirectoryError"
        /\ raised_in = "__init__"
        /\ ~constructed
        /\ runs = 0
        /\ stats = {}
        /\ quick_reads = {}
        /\ full_reads = << >>

\* the constructor has raised on a root that is not a directory
InvalidRootWitness ==
    /\ ~dir_ok
    /\ pc = "failed"
    /\ error = "NotADirectoryError"

----------------------------------------------------------------------------
(* C6 *)

\* C6: a second traverse() and get_dups() on the same object, on an
\* unmodified tree, returns groups of the same membership as the first.
Idempotence ==
    (runs = 2 /\ pc = "done") => Membership(result) = Membership(first_result)

----------------------------------------------------------------------------
(* C7 *)

\* C7: a listed file that is removed before the scanner stats or opens it is
\* skipped silently: the traversal raises no error.
VanishSkippedSilently ==
    ~(pc = "failed" /\ raised_in \in {"_scan_path", "FileInfo"})

----------------------------------------------------------------------------
(* C8 *)

\* C8: after get_dups every record of a returned group carries the full
\* digest of its file, and the digest printed for a group is the full digest.
DigestOverwritten ==
    /\ returned =>
          \A k \in 1 .. Len(result) :
             \A i \in 1 .. Len(result[k]) :
                result[k][i].md5 = calc_md5(content[result[k][i].path], TRUE)
    /\ \A l \in 1 .. Len(printed) :
          printed[l].kind = "md5" =>
             printed[l].md5 = calc_md5(content[printed[l + 1].path], TRUE)

----------------------------------------------------------------------------
(* C9 *)

\* C9: the members of a returned group, like the records of a coarse bucket,
\* are in the order the traversal visited their files, which is the order
\* they were re-hashed in.
IntraGroupOrder ==
    /\ \A b \in 1 .. Len(scanned_info) :
          \A i, j \in 1 .. Len(scanned_info[b].recs) :
             i < j => Visit(scanned_info[b].recs[i].path) < Visit(scanned_info[b].recs[j].path)
    /\ returned =>
          \A k \in 1 .. Len(result) :
             \A i, j \in 1 .. Len(result[k]) :
                i < j =>
                   /\ Visit(result[k][i].path) < Visit(result[k][j].path)
                   /\ \E m, n \in 1 .. Len(full_reads) :
                         /\ m < n
                         /\ full_reads[m].path = result[k][i].path
                         /\ full_reads[n].path = result[k][j].path

\* a returned group whose members are not in the order of their paths
IntraGroupOrderWitness ==
    /\ returned
    /\ \E k \in 1 .. Len(result) : result[k][1].path > result[k][2].path

----------------------------------------------------------------------------
(* C10 *)

\* C10: when the full re-hash of a candidate fails, the error leaves
\* get_dups, it is the last candidate re-hashed, no list of groups is
\* returned and nothing is printed.
FailFastRefine ==
    \A i \in 1 .. Len(full_reads) :
        ~full_reads[i].ok =>
            /\ i = Len(full_reads)
            /\ pc = "failed"
            /\ error = "FileNotFoundError"
            /\ raised_in = "get_dups"
            /\ ~returned
            /\ result = << >>
            /\ printed = << >>

\* a re-hash failed after another had succeeded and before the last candidate
FailFastRefineWitness ==
    /\ pc = "failed"
    /\ raised_in = "get_dups"
    /\ deep # << >>
    /\ Len(full_reads) < Len(Candidates(scanned_info))

====
